---- MODULE Spec2Model ----
(***************************************************************************)
(* A model of the coding agent's core: the bounded attempt memory          *)
(* (src/src/memory.py), the sandboxed executor and the safety scanner      *)
(* (src/src/executor.py), the embedded test harness                        *)
(* (src/src/test_runner.py) and the retry loop that drives them            *)
(* (src/src/agent.py).                                                     *)
(*                                                                         *)
(* Texts (source code, captured streams, error messages) are sequences of  *)
(* string chunks; "in" and strip() are computed on those sequences.        *)
(***************************************************************************)
EXTENDS Integers, Sequences, FiniteSets, TLC

VARIABLES
    max_size,      \* ShortTermMemory.max_size
    attempts,      \* ShortTermMemory.attempts, oldest first
    added,         \* history: the attempts passed to add since the memory was last empty, while addsOnly
    addsOnly,      \* history: TRUE while attempts was only changed by add (and clear)
    code,          \* execute_code: the candidate source text
    timeout,       \* execute_code: the wall-clock timeout
    classes,       \* number of test-case types the candidate code defines when evaluated
    invocation,    \* number of the current execute_code call
    pc,            \* execute_code: position of the caller in the function
    files,         \* scratch files existing in LOGS_DIR: [inv, kind]
    child,         \* the child process: "none", "running", "exited", "killed"
    elapsed,       \* wall-clock ticks since the child was spawned
    proc,          \* the CompletedProcess of subprocess.run, or None
    hostRun,       \* what evaluating the code in run_tests did, or None
    hostPhase,     \* phase of a candidate loop running in the host process
    test_result,   \* the TestResult returned by run_tests, or None
    pending,       \* the return value or exception held while the finally block runs
    result,        \* the ExecutionResult returned to the caller, or None
    raised,        \* the exception propagated to the caller, or None
    agentPc,       \* run_agent: position in the loop; "none" when nothing runs it
    iteration,     \* run_agent: the loop variable
    verdict,       \* the (is_safe, message) pair a direct call of is_code_safe returned, or None
    returned,      \* what a read of the memory returned to its caller: [op, arg, value, touched], or None
    aliased,       \* TRUE when the list in returned is the memory's own list object
    launcher       \* the resource-limiting wrapper script run on its own: [pc, platform, applied, ran], or None

memVars == <<max_size, attempts, added, addsOnly>>

execVars == <<code, timeout, classes, invocation, pc, files, child, elapsed, proc,
              hostRun, hostPhase, test_result, pending, result, raised>>

readVars == <<returned, aliased>>

agentVars == <<agentPc, iteration, verdict, returned, aliased, launcher>>

vars == <<max_size, attempts, added, addsOnly, code, timeout, classes, invocation,
          pc, files, child, elapsed, proc, hostRun, hostPhase, test_result,
          pending, result, raised, agentPc, iteration, verdict, returned, aliased,
          launcher>>

----------------------------------------------------------------------------
(* Bounds of the model *)

MaxSize == 3          \* largest max_size a memory is constructed with
MaxAdds == 3          \* longest recorded history of add calls
MaxJsonLen == 2       \* longest serialized attempt list handed to from_json
MaxIterationSample == 2   \* iteration numbers carried by the sample attempts
MaxCodeLen == 2       \* longest candidate source text, in chunks
MaxTimeout == 2       \* largest wall-clock timeout, in ticks
MaxTests == 2         \* most test methods a candidate defines
MaxIterations == 2    \* iterations of the retry loop explored (config.MAX_ITERATIONS caps them at 5)
MaxRecent == 3        \* largest n passed to get_recent

----------------------------------------------------------------------------
(* Sequences and texts *)

Min(a, b) == IF a <= b THEN a ELSE b

\* Python s[-n:] for 1 <= n <= len(s)
LastN(s, n) == SubSeq(s, Len(s) - n + 1, Len(s))

\* All sequences over S of length at most n
SeqUpTo(S, n) == UNION {[1..k -> S] : k \in 0..n}

\* Python "pat in text"
Contains(text, pat) ==
    \E i \in 1..(Len(text) - Len(pat) + 1) : SubSeq(text, i, i + Len(pat) - 1) = pat

IsWhitespace(c) == c \in {" ", "   ", "\n", "\t"}

RECURSIVE LStrip(_)
LStrip(s) ==
    IF s = <<>> THEN <<>>
    ELSE IF IsWhitespace(Head(s)) THEN LStrip(Tail(s)) ELSE s

RECURSIVE RStrip(_)
RStrip(s) ==
    IF s = <<>> THEN <<>>
    ELSE IF IsWhitespace(s[Len(s)]) THEN RStrip(SubSeq(s, 1, Len(s) - 1)) ELSE s

\* Python str.strip()
Strip(s) == RStrip(LStrip(s))

\* Python sep.join(parts)
RECURSIVE Join(_, _)
Join(sep, parts) ==
    IF parts = <<>> THEN <<>>
    ELSE IF Len(parts) = 1 THEN parts[1]
    ELSE parts[1] \o sep \o Join(sep, Tail(parts))

\* str(n) of an integer, the sign a chunk of its own
IntText(n) == IF n < 0 THEN <<"-", ToString(-n)>> ELSE <<ToString(n)>>

\* Number of occurrences of the chunk c in text
RECURSIVE CountChunk(_, _)
CountChunk(text, c) ==
    IF text = <<>> THEN 0
    ELSE (IF Head(text) = c THEN 1 ELSE 0) + CountChunk(Tail(text), c)

----------------------------------------------------------------------------
(* memory.py: Attempt *)

None == [none |-> TRUE]

TimeSamples == {"t1", "t2"}

\* The memory and the executor while the other one is exercised
MemIdle ==
    /\ max_size = 1
    /\ attempts = <<>>
    /\ added = <<>>
    /\ addsOnly = TRUE

ExecIdle ==
    /\ code = <<>>
    /\ timeout = 0
    /\ classes = 0
    /\ invocation = 0
    /\ pc = "idle"
    /\ files = {}
    /\ child = "none"
    /\ elapsed = 0
    /\ proc = None
    /\ hostRun = None
    /\ hostPhase = 0
    /\ test_result = None
    /\ pending = None
    /\ result = None
    /\ raised = None

AgentIdle ==
    /\ agentPc = "none"
    /\ iteration = 0
    /\ verdict = None
    /\ returned = None
    /\ aliased = FALSE
    /\ launcher = None

\* Attempt.__post_init__: an empty timestamp is replaced by the current time
Attempt(iter, source, success, output, error, test_results, timestamp, now) ==
    [iteration |-> iter, code |-> source, success |-> success,
     output |-> output, error |-> error, test_results |-> test_results,
     timestamp |-> IF timestamp = "" THEN now ELSE timestamp]

\* A test_results dictionary: {total_tests, passed, failed, failures}
TestResultsDict(total, passed, names) ==
    [total_tests |-> total, passed |-> passed, failed |-> total - passed,
     failures |-> [k \in 1..Len(names) |->
                      [test_name |-> names[k], message |-> <<"AssertionError">>]]]

\* The attempts handed to the memory by its callers: successes and failures,
\* with and without test results, errors of one and of two lines
AttemptSamples ==
    {Attempt(i, <<>>, FALSE, <<>>, <<"err1">>, None, "t1", "t1") :
        i \in 1..MaxIterationSample}
    \cup
    {Attempt(1, <<>>, TRUE, <<"ok">>, <<>>, None, "t1", "t1"),
     Attempt(1, <<>>, TRUE, <<"ok">>, <<>>, TestResultsDict(2, 2, <<>>), "t1", "t1"),
     Attempt(1, <<>>, FALSE, <<>>, <<"err1", "\n", "detail">>, None, "t1", "t1"),
     Attempt(1, <<>>, FALSE, <<>>, <<"err2">>,
             TestResultsDict(1, 0, << <<"test_a">> >>), "t1", "t1"),
     Attempt(1, <<>>, FALSE, <<>>, <<"err2">>,
             TestResultsDict(2, 1, << <<"test_b">> >>), "t1", "t1")}

\* dataclasses.asdict(attempt): the dictionary written by to_json
asdict(a) ==
    [iteration |-> a.iteration, code |-> a.code, success |-> a.success,
     output |-> a.output, error |-> a.error, test_results |-> a.test_results,
     timestamp |-> a.timestamp]

\* Attempt(**item) for one item of a parsed document
AttemptFromItem(item, now) ==
    Attempt(item.iteration, item.code, item.success, item.output, item.error,
            item.test_results, item.timestamp, now)

\* json.dumps / json.loads: a document is a tree of JSON values
JsonString(v) == [json |-> "string", v |-> v]
JsonNumber(n) == [json |-> "number", v |-> n]
JsonBool(b) == [json |-> IF b THEN "true" ELSE "false"]
JsonNull == [json |-> "null"]
JsonArray(items) == [json |-> "array", v |-> items]
JsonObject(members) == [json |-> "object", v |-> members]

\* json.dumps of a test_results value: None or a dictionary
DumpTestResults(tr) ==
    IF tr = None THEN JsonNull
    ELSE JsonObject(
           [total_tests |-> JsonNumber(tr.total_tests),
            passed |-> JsonNumber(tr.passed),
            failed |-> JsonNumber(tr.failed),
            failures |-> JsonArray(
                [k \in 1..Len(tr.failures) |->
                    JsonObject([test_name |-> JsonString(tr.failures[k].test_name),
                                message |-> JsonString(tr.failures[k].message)])])])

DumpItem_EmptyTimestamp(d) ==
    JsonObject([iteration |-> JsonNumber(d.iteration),
                code |-> JsonString(d.code),
                success |-> JsonBool(d.success),
                output |-> JsonString(d.output),
                error |-> JsonString(d.error),
                test_results |-> DumpTestResults(d.test_results),
                timestamp |-> JsonString("")])

\* json.dumps of one asdict dictionary
DumpItem(d) ==
    JsonObject([iteration |-> JsonNumber(d.iteration),
                code |-> JsonString(d.code),
                success |-> JsonBool(d.success),
                output |-> JsonString(d.output),
                error |-> JsonString(d.error),
                test_results |-> DumpTestResults(d.test_results),
                timestamp |-> JsonString(d.timestamp)])

\* json.dumps of a list of dictionaries
json_dumps(items) == JsonArray([i \in 1..Len(items) |-> DumpItem(items[i])])

\* json.loads: null is None, true and false the booleans, an array a list,
\* an object a dictionary
RECURSIVE json_loads(_)
json_loads(doc) ==
    IF doc.json = "null" THEN None
    ELSE IF doc.json = "true" THEN TRUE
    ELSE IF doc.json = "false" THEN FALSE
    ELSE IF doc.json = "array" THEN [i \in 1..Len(doc.v) |-> json_loads(doc.v[i])]
    ELSE IF doc.json = "object" THEN [k \in DOMAIN doc.v |-> json_loads(doc.v[k])]
    ELSE doc.v

\* The items of the documents handed to from_json; one has no timestamp and
\* an error text that reads like the advisory sentence of a pattern
JsonItemSamples ==
    {[iteration |-> 1, code |-> <<>>, success |-> FALSE, output |-> <<>>,
      error |-> <<"err1">>, test_results |-> None, timestamp |-> "t1"],
     [iteration |-> 2, code |-> <<>>, success |-> TRUE, output |-> <<"ok">>,
      error |-> <<>>, test_results |-> TestResultsDict(2, 2, <<>>), timestamp |-> "t1"],
     [iteration |-> 3, code |-> <<>>, success |-> FALSE, output |-> <<>>,
      error |-> <<"[!] WARNING: You've had the same error in your last 2 attempts. Try a completely different approach.">>,
      test_results |-> None, timestamp |-> ""]}

\* The serialized documents handed to from_json
JsonSamples == {json_dumps(items) : items \in SeqUpTo(JsonItemSamples, MaxJsonLen)}

----------------------------------------------------------------------------
(* memory.py: ShortTermMemory *)

\* ShortTermMemory.__init__
MemInit ==
    /\ max_size \in 1..MaxSize
    /\ attempts = <<>>
    /\ added = <<>>
    /\ addsOnly = TRUE
    /\ ExecIdle
    /\ AgentIdle

\* add with the eviction taken from the wrong end of the list
AddDropNewest(as, a, m) ==
    LET appended == Append(as, a)
    IN  IF Len(appended) > m THEN SubSeq(appended, 1, Len(appended) - 1) ELSE appended

\* The list after add(attempt): append, then pop(0) when longer than max_size
AddDropOldest(as, a, m) ==
    LET appended == Append(as, a)
    IN  IF Len(appended) > m THEN Tail(appended) ELSE appended

\* ShortTermMemory.add
add(a) ==
    /\ attempts' = AddDropOldest(attempts, a, max_size)
    /\ added' = IF addsOnly THEN Append(added, a) ELSE added
    /\ UNCHANGED <<max_size, addsOnly>>

\* ShortTermMemory.get_all
get_all == attempts

\* ShortTermMemory.count
count == Len(attempts)

\* Python s[start:] of a list: a negative start counts from the end, and
\* a start before the first element is the first element
SliceFrom(s, start) ==
    LET from == IF start < 0 THEN (IF Len(s) + start < 0 THEN 0 ELSE Len(s) + start)
                ELSE Min(start, Len(s))
    IN  SubSeq(s, from + 1, Len(s))

\* ShortTermMemory.get_recent
get_recent(n) == IF n <= Len(attempts) THEN SliceFrom(attempts, -n) ELSE attempts

\* ShortTermMemory.clear
clear ==
    /\ attempts' = <<>>
    /\ added' = <<>>
    /\ addsOnly' = TRUE
    /\ UNCHANGED max_size

\* error.split('\n')[0]: the text before the first newline
RECURSIVE FirstLine(_)
FirstLine(text) ==
    IF text = <<>> \/ Head(text) = "\n" THEN <<>>
    ELSE <<Head(text)>> \o FirstLine(Tail(text))

\* Truth value of a test_results field: None is false, a filled dictionary true
Truthy(tr) == tr # None

\* set(f['test_name'] for f in test_results.get('failures', []))
FailureNames(tr) == {tr.failures[k].test_name : k \in 1..Len(tr.failures)}

has_pattern_WholeError(pattern_type) ==
    IF pattern_type = "same_error" /\ Len(attempts) >= 2
    THEN LET last_two == LastN(attempts, 2)
         IN  /\ \A i \in 1..2 : ~last_two[i].success
             /\ last_two[1].error = last_two[2].error
    ELSE IF pattern_type = "same_test_failure" /\ Len(attempts) >= 2
    THEN LET last_two == LastN(attempts, 2)
         IN  /\ \A i \in 1..2 : Truthy(last_two[i].test_results)
             /\ FailureNames(last_two[1].test_results)
                    \cap FailureNames(last_two[2].test_results) # {}
    ELSE IF pattern_type = "no_progress" /\ Len(attempts) >= 3
    THEN LET last_three == LastN(attempts, 3)
         IN  \A i \in 1..3 :
                /\ ~last_three[i].success
                /\ ~(Truthy(last_three[i].test_results)
                        /\ last_three[i].test_results.passed > 0)
    ELSE FALSE

has_pattern_AnySharedResults(pattern_type) ==
    IF pattern_type = "same_error" /\ Len(attempts) >= 2
    THEN LET last_two == LastN(attempts, 2)
         IN  /\ \A i \in 1..2 : ~last_two[i].success
             /\ FirstLine(last_two[1].error) = FirstLine(last_two[2].error)
    ELSE IF pattern_type = "same_test_failure" /\ Len(attempts) >= 2
    THEN LET last_two == LastN(attempts, 2)
         IN  \A i \in 1..2 : Truthy(last_two[i].test_results)
    ELSE IF pattern_type = "no_progress" /\ Len(attempts) >= 3
    THEN LET last_three == LastN(attempts, 3)
         IN  \A i \in 1..3 :
                /\ ~last_three[i].success
                /\ ~(Truthy(last_three[i].test_results)
                        /\ last_three[i].test_results.passed > 0)
    ELSE FALSE

has_pattern_IgnoresPassed(pattern_type) ==
    IF pattern_type = "same_error" /\ Len(attempts) >= 2
    THEN LET last_two == LastN(attempts, 2)
         IN  /\ \A i \in 1..2 : ~last_two[i].success
             /\ FirstLine(last_two[1].error) = FirstLine(last_two[2].error)
    ELSE IF pattern_type = "same_test_failure" /\ Len(attempts) >= 2
    THEN LET last_two == LastN(attempts, 2)
         IN  /\ \A i \in 1..2 : Truthy(last_two[i].test_results)
             /\ FailureNames(last_two[1].test_results)
                    \cap FailureNames(last_two[2].test_results) # {}
    ELSE IF pattern_type = "no_progress" /\ Len(attempts) >= 3
    THEN LET last_three == LastN(attempts, 3)
         IN  \A i \in 1..3 : ~last_three[i].success
    ELSE FALSE

\* ShortTermMemory.has_pattern
has_pattern(pattern_type) ==
    IF pattern_type = "same_error" /\ Len(attempts) >= 2
    THEN LET last_two == LastN(attempts, 2)
         IN  /\ \A i \in 1..2 : ~last_two[i].success
             /\ FirstLine(last_two[1].error) = FirstLine(last_two[2].error)
    ELSE IF pattern_type = "same_test_failure" /\ Len(attempts) >= 2
    THEN LET last_two == LastN(attempts, 2)
         IN  /\ \A i \in 1..2 : Truthy(last_two[i].test_results)
             /\ FailureNames(last_two[1].test_results)
                    \cap FailureNames(last_two[2].test_results) # {}
    ELSE IF pattern_type = "no_progress" /\ Len(attempts) >= 3
    THEN LET last_three == LastN(attempts, 3)
         IN  \A i \in 1..3 :
                /\ ~last_three[i].success
                /\ ~(Truthy(last_three[i].test_results)
                        /\ last_three[i].test_results.passed > 0)
    ELSE FALSE

\* sorted(passed_counts): insertion of each count into the sorted rest
RECURSIVE sorted(_)
sorted(counts) ==
    IF counts = <<>> THEN <<>>
    ELSE LET rest == sorted(Tail(counts))
             k == Cardinality({i \in 1..Len(rest) : rest[i] < Head(counts)})
         IN  SubSeq(rest, 1, k) \o <<Head(counts)>> \o SubSeq(rest, k + 1, Len(rest))

\* sorted(passed_counts, reverse=True)
Reversed(counts) == [i \in 1..Len(counts) |-> counts[Len(counts) + 1 - i]]

_calculate_progress_LastTwo ==
    IF Len(attempts) < 2 THEN "insufficient_data"
    ELSE LET recent == LastN(attempts, 2)
             idx == 1..Len(recent)
             passed_counts == [i \in idx |-> recent[i].test_results.passed]
             has_execution_error ==
                 \E i \in idx : ~Truthy(recent[i].test_results) /\ ~recent[i].success
             has_test_failures ==
                 \E i \in idx : Truthy(recent[i].test_results) /\ ~recent[i].success
         IN  IF (\A i \in idx : Truthy(recent[i].test_results))
                    /\ passed_counts = sorted(passed_counts)
             THEN "improving"
             ELSE IF (\A i \in idx : Truthy(recent[i].test_results))
                    /\ passed_counts = Reversed(sorted(passed_counts))
             THEN "regressing"
             ELSE IF has_execution_error /\ has_test_failures THEN "mixed"
             ELSE "stable"

\* ShortTermMemory._calculate_progress
_calculate_progress ==
    IF Len(attempts) < 2 THEN "insufficient_data"
    ELSE LET recent == IF Len(attempts) >= 3 THEN LastN(attempts, 3) ELSE attempts
             idx == 1..Len(recent)
             passed_counts == [i \in idx |-> recent[i].test_results.passed]
             has_execution_error ==
                 \E i \in idx : ~Truthy(recent[i].test_results) /\ ~recent[i].success
             has_test_failures ==
                 \E i \in idx : Truthy(recent[i].test_results) /\ ~recent[i].success
         IN  IF (\A i \in idx : Truthy(recent[i].test_results))
                    /\ passed_counts = sorted(passed_counts)
             THEN "improving"
             ELSE IF (\A i \in idx : Truthy(recent[i].test_results))
                    /\ passed_counts = Reversed(sorted(passed_counts))
             THEN "regressing"
             ELSE IF has_execution_error /\ has_test_failures THEN "mixed"
             ELSE "stable"

\* sum(1 for a in attempts if a.success == flag)
RECURSIVE CountSuccess(_, _)
CountSuccess(as, flag) ==
    IF as = <<>> THEN 0
    ELSE (IF Head(as).success = flag THEN 1 ELSE 0) + CountSuccess(Tail(as), flag)

\* An optional text that is present (one that is absent is None)
Some(text) == [some |-> text]

get_summary_ErrorOfAnyLast ==
    IF attempts = <<>> THEN [total_attempts |-> 0]
    ELSE [total_attempts |-> Len(attempts),
          successful_attempts |-> CountSuccess(attempts, TRUE),
          failed_attempts |-> CountSuccess(attempts, FALSE),
          most_recent_error |-> Some(attempts[Len(attempts)].error),
          progress |-> _calculate_progress]

\* ShortTermMemory.get_summary
get_summary ==
    IF attempts = <<>> THEN [total_attempts |-> 0]
    ELSE [total_attempts |-> Len(attempts),
          successful_attempts |-> CountSuccess(attempts, TRUE),
          failed_attempts |-> CountSuccess(attempts, FALSE),
          most_recent_error |-> IF ~attempts[Len(attempts)].success
                                THEN Some(attempts[Len(attempts)].error)
                                ELSE None,
          progress |-> _calculate_progress]

\* ShortTermMemory.to_json
to_json == json_dumps([i \in 1..Len(attempts) |-> asdict(attempts[i])])

\* The fixed advisory sentence of a pattern ("[!]" stands for the warning sign)
WarningText(pattern_type) ==
    IF pattern_type = "same_error"
    THEN "[!] WARNING: You've had the same error in your last 2 attempts. Try a completely different approach."
    ELSE IF pattern_type = "same_test_failure"
    THEN "[!] WARNING: The same test is failing repeatedly. Focus specifically on fixing that test."
    ELSE "[!] WARNING: No tests have passed in 3 attempts. Consider rewriting from scratch with a simpler approach."

\* memory.py 157-175: the lines written for one attempt; the texts of the
\* model are shorter than the 100 characters the error preview is cut to
AttemptEntry(a) ==
    LET tr == a.test_results
        shown == SubSeq(tr.failures, 1, Min(2, Len(tr.failures)))
    IN  <<"\nAttempt ", ToString(a.iteration), ": ",
          IF a.success THEN "[check] SUCCESS" ELSE "[x] FAILED", "\n">>
        \o (IF Truthy(tr)
            THEN <<"  Tests: ", ToString(tr.passed), "/", ToString(tr.total_tests), " passed\n">>
                 \o (IF tr.failures # <<>>
                     THEN <<"  Failed tests:\n">>
                          \o Join(<<>>, [k \in 1..Len(shown) |->
                                 <<"    - ">> \o shown[k].test_name \o <<": ">>
                                     \o shown[k].message \o <<"\n">>])
                     ELSE <<>>)
            ELSE <<>>)
        \o (IF ~a.success /\ a.error # <<>>
            THEN <<"  Error: ">> \o FirstLine(a.error) \o <<"\n">>
            ELSE <<>>)

build_reflection_prompt_FromOneAttempt ==
    IF count = 0 THEN <<>>
    ELSE LET summary == get_summary
             recent == SliceFrom(attempts, -3)
             Warning(t) == IF has_pattern(t) THEN <<WarningText(t), "\n\n">> ELSE <<>>
         IN  <<"\n## Reflection on Previous Attempts\n\n",
               "You have made ", ToString(summary.total_attempts), " attempt(s) so far.\n",
               "Progress status: ", summary.progress, "\n\n">>
             \o Warning("same_error")
             \o Warning("same_test_failure")
             \o Warning("no_progress")
             \o (IF Len(attempts) >= 1
                 THEN <<"Recent attempts:\n">>
                      \o Join(<<>>, [i \in 1..Len(recent) |-> AttemptEntry(recent[i])])
                 ELSE <<>>)
             \o <<"\nBefore writing new code, ask yourself:\n",
                  "1. What specifically went wrong in the last attempt?\n",
                  "2. Am I repeating the same approach? Should I try something different?\n",
                  "3. Are there edge cases I'm missing?\n\n">>

\* build_reflection_prompt(memory)
build_reflection_prompt ==
    IF count = 0 THEN <<>>
    ELSE LET summary == get_summary
             recent == SliceFrom(attempts, -3)
             Warning(t) == IF has_pattern(t) THEN <<WarningText(t), "\n\n">> ELSE <<>>
         IN  <<"\n## Reflection on Previous Attempts\n\n",
               "You have made ", ToString(summary.total_attempts), " attempt(s) so far.\n",
               "Progress status: ", summary.progress, "\n\n">>
             \o Warning("same_error")
             \o Warning("same_test_failure")
             \o Warning("no_progress")
             \o (IF Len(attempts) >= 2
                 THEN <<"Recent attempts:\n">>
                      \o Join(<<>>, [i \in 1..Len(recent) |-> AttemptEntry(recent[i])])
                 ELSE <<>>)
             \o <<"\nBefore writing new code, ask yourself:\n",
                  "1. What specifically went wrong in the last attempt?\n",
                  "2. Am I repeating the same approach? Should I try something different?\n",
                  "3. Are there edge cases I'm missing?\n\n">>

\* The list built by from_json: one Attempt per item, in document order
LoadAttempts(data, now) == [i \in 1..Len(data) |-> AttemptFromItem(data[i], now)]

\* ShortTermMemory.from_json
from_json(json_str, now) ==
    /\ attempts' = LoadAttempts(json_loads(json_str), now)
    /\ added' = <<>>
    /\ addsOnly' = FALSE
    /\ UNCHANGED max_size

MemAdd ==
    /\ Len(added) < MaxAdds
    /\ \E a \in AttemptSamples : add(a)
    /\ UNCHANGED <<execVars, agentVars>>

MemClear == clear /\ UNCHANGED <<execVars, agentVars>>

MemFromJson ==
    /\ \E json_str \in JsonSamples, now \in TimeSamples : from_json(json_str, now)
    /\ UNCHANGED <<execVars, agentVars>>

MemNext == MemAdd \/ MemClear \/ MemFromJson

SpecMemory == MemInit /\ [][MemNext]_vars

\* The value a read hands to its caller, not yet changed by the caller
Returned(op, arg, value) == [op |-> op, arg |-> arg, value |-> value, touched |-> FALSE]

SharesList_GetAll(op) == op = "get_all"

\* Whether the list a read returns is the memory's own list object: get_all
\* returns self.attempts.copy(), get_recent a slice or a copy
SharesList(op) == FALSE

\* A read: nothing is assigned but the caller's variable
Read(op, arg, value) ==
    /\ returned = None
    /\ returned' = Returned(op, arg, value)
    /\ aliased' = SharesList(op)
    /\ UNCHANGED <<memVars, execVars, agentPc, iteration, verdict, launcher>>

PatternTypes == {"same_error", "same_test_failure", "no_progress"}

ReadGetAll == Read("get_all", 0, get_all)

ReadGetRecent == \E n \in 0..MaxRecent : Read("get_recent", n, get_recent(n))

ReadCount == Read("count", 0, count)

ReadHasPattern == \E t \in PatternTypes : Read("has_pattern", t, has_pattern(t))

ReadGetSummary == Read("get_summary", 0, get_summary)

ReadToJson == Read("to_json", 0, to_json)

ReadReflection == Read("build_reflection_prompt", 0, build_reflection_prompt)

\* The caller appends an attempt to the list it was handed
CallerAppend ==
    /\ returned # None
    /\ returned.op \in {"get_all", "get_recent"}
    /\ ~returned.touched
    /\ returned' = [returned EXCEPT
                        !.value = Append(@, Attempt(1, <<>>, TRUE, <<"ok">>, <<>>, None, "t1", "t1")),
                        !.touched = TRUE]
    /\ attempts' = IF aliased THEN returned'.value ELSE attempts
    /\ UNCHANGED <<max_size, added, addsOnly, execVars, agentPc, iteration, verdict, aliased,
                   launcher>>

\* The caller removes the last attempt of the list it was handed
CallerRemove ==
    /\ returned # None
    /\ returned.op \in {"get_all", "get_recent"}
    /\ ~returned.touched
    /\ returned.value # <<>>
    /\ returned' = [returned EXCEPT !.value = SubSeq(@, 1, Len(@) - 1), !.touched = TRUE]
    /\ attempts' = IF aliased THEN returned'.value ELSE attempts
    /\ UNCHANGED <<max_size, added, addsOnly, execVars, agentPc, iteration, verdict, aliased,
                   launcher>>

\* The caller drops the value it was handed
Discard ==
    /\ returned # None
    /\ returned' = None
    /\ aliased' = FALSE
    /\ UNCHANGED <<memVars, execVars, agentPc, iteration, verdict, launcher>>

ReadNext ==
    \/ returned = None /\ MemNext
    \/ ReadGetAll
    \/ ReadGetRecent
    \/ ReadCount
    \/ ReadHasPattern
    \/ ReadGetSummary
    \/ ReadToJson
    \/ ReadReflection
    \/ CallerAppend
    \/ CallerRemove
    \/ Discard

SpecRead == MemInit /\ [][ReadNext]_vars

----------------------------------------------------------------------------
(* test_runner.py: run_tests *)

TestResult(total_tests, passed, failed, errors, failures, success) ==
    [total_tests |-> total_tests, passed |-> passed, failed |-> failed,
     errors |-> errors, failures |-> failures, success |-> success]

\* What one test method does when the runner calls it: it passes, fails an
\* assertion, raises another fault, passes although decorated with
\* expectedFailure, or never returns
TestOutcomes == {"pass", "fail", "error", "unexpected_success", "diverge"}

\* What exec(code, namespace) does in the host: completes, raises, or never ends
HostLoads == {"ok", "NameError", "SystemExit", "diverge"}

\* "except Exception" catches every fault type but those deriving from
\* BaseException alone
IsException(kind) == kind \notin {"SystemExit", "KeyboardInterrupt", "GeneratorExit"}

\* A call of execute_code made directly, not by the retry loop
DirectCall == agentPc = "none"

\* The behaviours of the candidate code when run_tests evaluates it: what
\* the evaluation does, whether the class fixture setUpClass raises (then no
\* test method is run), and what each test method does; the retry loop is
\* explored with fewer of them
HostRunSamples ==
    IF DirectCall
    THEN {[load |-> l, fixture |-> "ok", outcomes |-> <<>>] : l \in HostLoads \ {"ok"}}
            \cup {[load |-> "ok", fixture |-> "ok", outcomes |-> o] :
                      o \in SeqUpTo(TestOutcomes, MaxTests)}
            \cup {[load |-> "ok", fixture |-> "setUpClass", outcomes |-> <<>>]}
    ELSE {[load |-> l, fixture |-> "ok", outcomes |-> <<>>] : l \in {"SystemExit", "diverge"}}
            \cup {[load |-> "ok", fixture |-> "ok", outcomes |-> o] :
                      o \in SeqUpTo({"pass", "fail"}, 1)}

\* The evaluation or one of the test methods never returns
Diverges(h) ==
    \/ h.load = "diverge"
    \/ h.load = "ok" /\ \E i \in 1..Len(h.outcomes) : h.outcomes[i] = "diverge"

\* str(test) of the i-th test method
TestName(i) == <<"test_", ToString(i)>>

\* The traceback text unittest records, as its lines; the text ends with a
\* newline, so split('\n') ends with an empty line
FailureTraceback(i) ==
    << <<"Traceback (most recent call last):">>,
       <<"AssertionError", ":", " test ", ToString(i)>>,
       <<>> >>

ErrorTraceback(i) ==
    << <<"Traceback (most recent call last):">>,
       <<"ValueError", ":", " test ", ToString(i)>>,
       <<>> >>

\* traceback.strip().split('\n'): the lines without the trailing empty ones
RECURSIVE StripLines(_)
StripLines(lines) ==
    IF lines = <<>> THEN <<>>
    ELSE IF lines[Len(lines)] = <<>> THEN StripLines(SubSeq(lines, 1, Len(lines) - 1))
    ELSE lines

\* line.split(':')[0]
RECURSIVE BeforeColon(_)
BeforeColon(line) ==
    IF line = <<>> \/ Head(line) = ":" THEN <<>>
    ELSE <<Head(line)>> \o BeforeColon(Tail(line))

\* Indices of the test methods with the given outcome, in run order
IndicesOf(outcomes, kind) ==
    SelectSeq([i \in 1..Len(outcomes) |-> i], LAMBDA i : outcomes[i] = kind)

\* test_runner.py 71-77: one entry per (test, traceback) of result.failures
FailureEntry(i) ==
    LET tb == FailureTraceback(i)
    IN  [test_name |-> TestName(i),
         error_type |-> <<"AssertionError">>,
         message |-> IF Len(tb) > 1 THEN tb[Len(tb) - 1] ELSE tb[1],
         traceback |-> tb]

\* test_runner.py 79-89: one entry per (test, traceback) of result.errors
ErrorEntry(i) ==
    LET tb == ErrorTraceback(i)
        error_lines == StripLines(tb)
    IN  [test_name |-> TestName(i),
         error_type |-> IF error_lines # <<>>
                        THEN BeforeColon(error_lines[Len(error_lines)])
                        ELSE <<"Error">>,
         message |-> IF Len(tb) > 1 THEN tb[Len(tb)] ELSE tb[1],
         traceback |-> tb]

\* test_runner.py 79-89: the entry of result.errors that unittest records
\* for a class fixture that raised
FixtureEntry(fixture) ==
    LET tb == ErrorTraceback(0)
        error_lines == StripLines(tb)
    IN  [test_name |-> <<fixture, " (", "TestClass", ")">>,
         error_type |-> IF error_lines # <<>>
                        THEN BeforeColon(error_lines[Len(error_lines)])
                        ELSE <<"Error">>,
         message |-> IF Len(tb) > 1 THEN tb[Len(tb)] ELSE tb[1],
         traceback |-> tb]

\* test_runner.py 43-56
NoTestsFound ==
    TestResult(0, 0, 0, 1,
               << [test_name |-> <<"code_structure">>,
                   error_type |-> <<"NoTestsFound">>,
                   message |-> <<"No unittest.TestCase class found in code">>,
                   traceback |-> <<>>] >>,
               FALSE)

\* test_runner.py 100-115
CodeExecutionFault(kind) ==
    TestResult(0, 0, 0, 1,
               << [test_name |-> <<"code_execution">>,
                   error_type |-> <<kind>>,
                   message |-> <<kind, " raised">>,
                   traceback |-> << <<"Traceback (most recent call last):">>,
                                    <<kind, ":", " raised">>, <<>> >>] >>,
               FALSE)

\* unittest's TestResult.wasSuccessful(): no failure, no error and no
\* unexpected success was recorded
wasSuccessful(fixture, outcomes) ==
    /\ fixture = "ok"
    /\ IndicesOf(outcomes, "fail") = <<>>
    /\ IndicesOf(outcomes, "error") = <<>>
    /\ IndicesOf(outcomes, "unexpected_success") = <<>>

\* test_runner.py 58-98: the suite ran; n test classes, one outcome per method
SuiteResult(fixture, outcomes) ==
    LET failed == IndicesOf(outcomes, "fail")
        errors == (IF fixture = "ok" THEN <<>> ELSE <<FixtureEntry(fixture)>>)
                      \o [k \in 1..Len(IndicesOf(outcomes, "error")) |->
                             ErrorEntry(IndicesOf(outcomes, "error")[k])]
        testsRun == Len(outcomes)
    IN  TestResult(testsRun,
                   testsRun - Len(failed) - Len(errors),
                   Len(failed),
                   Len(errors),
                   [k \in 1..Len(failed) |-> FailureEntry(failed[k])] \o errors,
                   wasSuccessful(fixture, outcomes))

\* run_tests(code) for a code that defines n test-case types and behaves as h
\* in the host, when it returns at all (h does not diverge and raises nothing
\* outside Exception)
run_tests(n, h) ==
    IF h.load # "ok" THEN CodeExecutionFault(h.load)
    ELSE IF n = 0 THEN NoTestsFound
    ELSE SuiteResult(h.fixture, h.outcomes)

----------------------------------------------------------------------------
(* executor.py: is_code_safe *)

\* The chunks candidate source texts are made of
CodeAlphabet == {"print", "eval", "(", "socket", "rmdir", "unittest", ".TestCase"}

Codes == SeqUpTo(CodeAlphabet, MaxCodeLen)

\* 'unittest.TestCase'
TestMarker == <<"unittest", ".TestCase">>

dangerous_patterns ==
    << [pattern |-> <<"import", " ", "shutil">>, reason |-> "filesystem manipulation"],
       [pattern |-> <<"rmdir">>, reason |-> "directory deletion"],
       [pattern |-> <<"os", ".remove">>, reason |-> "file deletion"],
       [pattern |-> <<"os", ".unlink">>, reason |-> "file deletion"],
       [pattern |-> <<"subprocess">>, reason |-> "subprocess spawning"],
       [pattern |-> <<"__import__">>, reason |-> "dynamic imports"],
       [pattern |-> <<"eval", "(">>, reason |-> "dynamic code evaluation"],
       [pattern |-> <<"exec", "(">>, reason |-> "dynamic code execution"],
       [pattern |-> <<"open", "(">>, reason |-> "file system access"],
       [pattern |-> <<"socket">>, reason |-> "network access"],
       [pattern |-> <<"requests">>, reason |-> "network access"],
       [pattern |-> <<"urllib">>, reason |-> "network access"],
       [pattern |-> <<"http", ".client">>, reason |-> "network access"] >>

\* Positions in the list of the patterns that occur in the text
MatchingPatterns(c) ==
    {i \in 1..Len(dangerous_patterns) : Contains(c, dangerous_patterns[i].pattern)}

\* Position in the text of the first occurrence of a pattern that occurs in it
FirstOccurrence(c, pat) ==
    CHOOSE i \in 1..(Len(c) - Len(pat) + 1) :
        /\ SubSeq(c, i, i + Len(pat) - 1) = pat
        /\ \A j \in 1..(i - 1) : SubSeq(c, j, j + Len(pat) - 1) # pat

\* is_code_safe answering with the pattern that occurs earliest in the text
is_code_safe_EarliestInText(c) ==
    IF MatchingPatterns(c) = {}
    THEN [is_safe |-> TRUE, message |-> <<"Code passed safety check">>]
    ELSE LET at(k) == FirstOccurrence(c, dangerous_patterns[k].pattern)
             i == CHOOSE k \in MatchingPatterns(c) :
                      \A j \in MatchingPatterns(c) :
                          at(k) < at(j) \/ (at(k) = at(j) /\ k <= j)
         IN  [is_safe |-> FALSE,
              message |-> <<"Blocked: code contains '">>
                              \o dangerous_patterns[i].pattern
                              \o <<"' (", dangerous_patterns[i].reason, ")">>]

\* is_code_safe with the scan stopping at nothing: every code passes
is_code_safe_AlwaysSafe(c) ==
    [is_safe |-> TRUE, message |-> <<"Code passed safety check">>]

\* is_code_safe: the first pattern, in list order, that occurs in the code
is_code_safe(c) ==
    IF MatchingPatterns(c) = {}
    THEN [is_safe |-> TRUE, message |-> <<"Code passed safety check">>]
    ELSE LET i == CHOOSE k \in MatchingPatterns(c) :
                      \A j \in MatchingPatterns(c) : k <= j
         IN  [is_safe |-> FALSE,
              message |-> <<"Blocked: code contains '">>
                              \o dangerous_patterns[i].pattern
                              \o <<"' (", dangerous_patterns[i].reason, ")">>]

\* A caller holds a code text and has not called is_code_safe yet
ScanInit ==
    /\ MemIdle
    /\ AgentIdle
    /\ code \in Codes
    /\ timeout = 0
    /\ classes = 0
    /\ invocation = 0
    /\ pc = "idle"
    /\ files = {}
    /\ child = "none"
    /\ elapsed = 0
    /\ proc = None
    /\ hostRun = None
    /\ hostPhase = 0
    /\ test_result = None
    /\ pending = None
    /\ result = None
    /\ raised = None

\* executor.py 202-227: a direct call is_code_safe(code)
Scan ==
    /\ verdict = None
    /\ verdict' = is_code_safe(code)
    /\ UNCHANGED <<memVars, execVars, agentPc, iteration, readVars, launcher>>

SpecScan == ScanInit /\ [][Scan]_vars

----------------------------------------------------------------------------
(* executor.py: get_resource_limit_script *)

\* The ceilings the wrapper script sets, in the order of its setrlimit calls
Ceilings == <<"RLIMIT_CPU", "RLIMIT_AS", "RLIMIT_FSIZE">>

\* What resource.setrlimit does on the platform for one ceiling
SetrlimitOutcomes == {"ok", "ValueError", "OSError"}

\* A platform: whether the resource module can be imported, and what
\* setrlimit does for each ceiling
Platforms ==
    [import : {"ok", "ImportError"},
     RLIMIT_CPU : SetrlimitOutcomes,
     RLIMIT_AS : SetrlimitOutcomes,
     RLIMIT_FSIZE : SetrlimitOutcomes]

\* The child starts the wrapper script
LauncherInit ==
    /\ MemIdle
    /\ ExecIdle
    /\ agentPc = "none"
    /\ iteration = 0
    /\ verdict = None
    /\ returned = None
    /\ aliased = FALSE
    /\ launcher \in {[pc |-> "import", platform |-> p, applied |-> {}, ran |-> FALSE] :
                        p \in Platforms}

LauncherFrame == UNCHANGED <<memVars, execVars, agentPc, iteration, verdict, readVars>>

\* executor.py 29-30, 45-47: import resource, inside the outer try
ImportResource ==
    /\ launcher.pc = "import"
    /\ launcher' = [launcher EXCEPT
                        !.pc = IF launcher.platform.import = "ok" THEN "cpu" ELSE "exec"]
    /\ LauncherFrame

\* executor.py 32-33, 45-47: a failure leaves the outer try
SetCpu ==
    /\ launcher.pc = "cpu"
    /\ launcher' = IF launcher.platform.RLIMIT_CPU = "ok"
                   THEN [launcher EXCEPT !.pc = "as", !.applied = @ \cup {"RLIMIT_CPU"}]
                   ELSE [launcher EXCEPT !.pc = "exec"]
    /\ LauncherFrame

\* executor.py 35-40: a failure is passed over by the inner try
SetAs ==
    /\ launcher.pc = "as"
    /\ launcher' = IF launcher.platform.RLIMIT_AS = "ok"
                   THEN [launcher EXCEPT !.pc = "fsize", !.applied = @ \cup {"RLIMIT_AS"}]
                   ELSE [launcher EXCEPT !.pc = "fsize"]
    /\ LauncherFrame

\* executor.py 42-43, 45-47
SetFsize ==
    /\ launcher.pc = "fsize"
    /\ launcher' = IF launcher.platform.RLIMIT_FSIZE = "ok"
                   THEN [launcher EXCEPT !.pc = "exec", !.applied = @ \cup {"RLIMIT_FSIZE"}]
                   ELSE [launcher EXCEPT !.pc = "exec"]
    /\ LauncherFrame

\* executor.py 49-50: the candidate code is run
ExecUserCode ==
    /\ launcher.pc = "exec"
    /\ launcher' = [launcher EXCEPT !.pc = "done", !.ran = TRUE]
    /\ LauncherFrame

LauncherNext == ImportResource \/ SetCpu \/ SetAs \/ SetFsize \/ ExecUserCode

SpecLauncher == LauncherInit /\ [][LauncherNext]_vars

----------------------------------------------------------------------------
(* executor.py: execute_code *)

ExecutionResult(success, output, error, execution_time) ==
    [success |-> success, output |-> output, error |-> error,
     execution_time |-> execution_time]

Return(value) == [kind |-> "return", value |-> value]
Raise(exception) == [kind |-> "raise", exception |-> exception]

\* The exit status and captured streams of the children; the retry loop is
\* explored with fewer of them
ExitCodes == IF DirectCall THEN {0, 1, -9, 137, 158, 153} ELSE {0, 1}

StdoutSamples == IF DirectCall THEN {<<>>, <<" ", "ok", "\n">>} ELSE {<<"ok", "\n">>}

\* executor.py 182
TimeoutText(t) == <<"Execution timed out after ", ToString(t), " seconds">>

\* The timeout handled by the general handler of 185-191 instead
TimeoutResult_AsGeneralFailure(t) ==
    [success |-> FALSE, output |-> <<>>,
     error |-> <<"Execution failed: ", "TimeoutExpired">>, execution_time |-> t]

\* executor.py 177-184
TimeoutResult(t) ==
    [success |-> FALSE, output |-> <<>>, error |-> TimeoutText(t), execution_time |-> t]

StderrSamples ==
    IF DirectCall
    THEN {<<>>,
          <<"Traceback", "\n">>,
          <<"CPU time limit exceeded", "\n">>,
          <<"File size limit exceeded">>,
          TimeoutText(timeout)}
    ELSE {<<>>}

KilledText == <<"Process killed by system - likely exceeded CPU or memory limit">>
CpuLimitText == <<"CPU time limit exceeded (5 seconds)">>
FileSizeLimitText == <<"File size limit exceeded (10MB per file)">>
ExitCodeText(rc) == <<"Process exited with code ", ToString(rc)>>

\* executor.py 140-175: the result for a child that exited, tests not run
ClassifyExit(p, execution_time) ==
    IF p.returncode = -9 \/ p.returncode = 137
    THEN ExecutionResult(FALSE, Strip(p.stdout), KilledText, execution_time)
    ELSE IF p.returncode = 158 \/ Contains(p.stderr, <<"CPU time limit exceeded">>)
    THEN ExecutionResult(FALSE, Strip(p.stdout), CpuLimitText, execution_time)
    ELSE IF p.returncode = 153 \/ Contains(p.stderr, <<"File size limit exceeded">>)
    THEN ExecutionResult(FALSE, Strip(p.stdout), FileSizeLimitText, execution_time)
    ELSE IF p.returncode = 0
    THEN ExecutionResult(TRUE, Strip(p.stdout), Strip(p.stderr), execution_time)
    ELSE ExecutionResult(FALSE, Strip(p.stdout),
                         IF Strip(p.stderr) # <<>> THEN Strip(p.stderr)
                         ELSE ExitCodeText(p.returncode),
                         execution_time)

\* The chunk that opens one block of the error text (U+274C and a space)
BlockMark == "[x] "

\* executor.py 121-126 rendering only the first failure
FailureDetails_FirstOnly(failures) ==
    [k \in 1..Min(1, Len(failures)) |->
        <<BlockMark>> \o failures[k].test_name \o <<"\n", "   ">> \o failures[k].message]

\* executor.py 121-126: one block per entry of test_result.failures
FailureDetails(failures) ==
    [k \in 1..Len(failures) |->
        <<BlockMark>> \o failures[k].test_name \o <<"\n", "   ">> \o failures[k].message]

\* executor.py 111-138: the result for a child that exited 0 and whose tests ran
MergeTests(p, tr, execution_time) ==
    IF tr.success
    THEN ExecutionResult(TRUE,
             <<"[check] All tests passed! (">> \o IntText(tr.passed) \o <<"/">>
                 \o IntText(tr.total_tests) \o <<")", "\n">> \o Strip(p.stdout),
             Strip(p.stderr), execution_time)
    ELSE ExecutionResult(FALSE, Strip(p.stdout),
             <<"Tests failed: ">> \o IntText(tr.passed) \o <<"/">>
                 \o IntText(tr.total_tests) \o <<" passed", "\n", "\n">>
                 \o Join(<<"\n", "\n">>, FailureDetails(tr.failures)),
             execution_time)

\* The scratch files of the current call
OwnFiles == {f \in files : f.inv = invocation}

UserFile == [inv |-> invocation, kind |-> "user"]
WrapperFile == [inv |-> invocation, kind |-> "wrapper"]

\* What creating a scratch file does: the file is created and written; it
\* cannot be created; it is created (delete=False) and writing it fails
CreateOutcomes == {"ok", "not_created", "write_failed"}

\* The files a failing os.remove leaves behind; the retry loop is explored
\* with all removed or none
CleanupSamples == IF DirectCall THEN SUBSET OwnFiles ELSE {{}, OwnFiles}

\* execute_code(code, timeout) is called
ExecInit ==
    /\ MemIdle
    /\ AgentIdle
    /\ code \in Codes
    /\ timeout \in 1..MaxTimeout
    /\ classes \in 0..1
    /\ invocation = 1
    /\ pc = "create_user"
    /\ files = {}
    /\ child = "none"
    /\ elapsed = 0
    /\ proc = None
    /\ hostRun = None
    /\ hostPhase = 0
    /\ test_result = None
    /\ pending = None
    /\ result = None
    /\ raised = None

callVars == <<code, timeout, classes, invocation>>

\* executor.py 68-76
CreateUserFile ==
    /\ pc = "create_user"
    /\ \E outcome \in CreateOutcomes :
        /\ files' = IF outcome = "not_created" THEN files ELSE files \cup {UserFile}
        /\ pc' = IF outcome = "ok" THEN "create_wrapper" ELSE "raised"
        /\ raised' = IF outcome = "ok" THEN raised
                     ELSE [type |-> "OSError", origin |-> "scratch"]
    /\ UNCHANGED <<memVars, agentVars, callVars, child, elapsed, proc, hostRun, hostPhase,
                   test_result, pending, result>>

\* executor.py 78-86
CreateWrapperFile ==
    /\ pc = "create_wrapper"
    /\ \E outcome \in CreateOutcomes :
        /\ files' = IF outcome = "not_created" THEN files ELSE files \cup {WrapperFile}
        /\ pc' = IF outcome = "ok" THEN "spawn" ELSE "raised"
        /\ raised' = IF outcome = "ok" THEN raised
                     ELSE [type |-> "OSError", origin |-> "scratch"]
    /\ UNCHANGED <<memVars, agentVars, callVars, child, elapsed, proc, hostRun, hostPhase,
                   test_result, pending, result>>

\* executor.py 90-100: subprocess.run starts the child
SpawnChild ==
    /\ pc = "spawn"
    /\ child' = "running"
    /\ pc' = "wait"
    /\ UNCHANGED <<memVars, agentVars, callVars, files, elapsed, proc, hostRun, hostPhase,
                   test_result, pending, result, raised>>

\* executor.py 90-100, 185-191: subprocess.run cannot start the child
SpawnFails ==
    /\ pc = "spawn"
    /\ pending' = Return(ExecutionResult(FALSE, <<>>,
                                         <<"Execution failed: ", "OSError">>, elapsed))
    /\ pc' = "finally"
    /\ UNCHANGED <<memVars, agentVars, callVars, files, child, elapsed, proc, hostRun,
                   hostPhase, test_result, result, raised>>

\* The child is still running; the caller stays blocked in subprocess.run
Tick ==
    /\ pc = "wait"
    /\ child = "running"
    /\ elapsed < timeout
    /\ elapsed' = elapsed + 1
    /\ UNCHANGED <<memVars, agentVars, callVars, pc, files, child, proc, hostRun, hostPhase,
                   test_result, pending, result, raised>>

\* executor.py 90-102: the child exits, or is killed by its resource limits,
\* before the deadline
ChildExit ==
    /\ pc = "wait"
    /\ child = "running"
    /\ elapsed < timeout
    /\ \E rc \in ExitCodes, out \in StdoutSamples, err \in StderrSamples :
        proc' = [returncode |-> rc, stdout |-> out, stderr |-> err]
    /\ child' = "exited"
    /\ pc' = "after_run"
    /\ UNCHANGED <<memVars, agentVars, callVars, files, elapsed, hostRun, hostPhase,
                   test_result, pending, result, raised>>

\* executor.py 177-184: the deadline passes, subprocess.run kills the child
TimeoutExpired ==
    /\ pc = "wait"
    /\ child = "running"
    /\ elapsed = timeout
    /\ child' = "killed"
    /\ pending' = Return(TimeoutResult(timeout))
    /\ pc' = "finally"
    /\ UNCHANGED <<memVars, agentVars, callVars, files, elapsed, proc, hostRun, hostPhase,
                   test_result, result, raised>>

\* executor.py 104-107, 140-175
AfterRun ==
    /\ pc = "after_run"
    /\ LET code_has_tests == Contains(code, TestMarker)
       IN  IF code_has_tests /\ proc.returncode = 0
           THEN /\ pc' = "run_tests"
                /\ UNCHANGED pending
           ELSE /\ pending' = Return(ClassifyExit(proc, elapsed))
                /\ pc' = "finally"
    /\ UNCHANGED <<memVars, agentVars, callVars, files, child, elapsed, proc, hostRun,
                   hostPhase, test_result, result, raised>>

\* executor.py 109-138 with test_runner.py 33-115: run_tests(code) evaluates
\* the code and runs its tests in the calling process
RunTests ==
    /\ pc = "run_tests"
    /\ \E h \in HostRunSamples :
        /\ classes = 0 => h.outcomes = <<>>
        /\ hostRun' = h
        /\ IF Diverges(h)
           THEN /\ pc' = "host_loop"
                /\ UNCHANGED <<test_result, pending>>
           ELSE IF h.load # "ok" /\ ~IsException(h.load)
           THEN /\ pending' = Raise([type |-> h.load, origin |-> "candidate"])
                /\ pc' = "finally"
                /\ UNCHANGED test_result
           ELSE /\ test_result' = run_tests(classes, h)
                /\ pending' = Return(MergeTests(proc, run_tests(classes, h), elapsed))
                /\ pc' = "finally"
    /\ UNCHANGED <<memVars, agentVars, callVars, files, child, elapsed, proc, hostPhase,
                   result, raised>>

\* test_runner.py 35, 66: the candidate's loop goes round once more
HostLoop ==
    /\ pc = "host_loop"
    /\ hostPhase' = 1 - hostPhase
    /\ UNCHANGED <<memVars, agentVars, callVars, pc, files, child, elapsed, proc, hostRun,
                   test_result, pending, result, raised>>

\* executor.py 192-199: each existing file is removed; a failing os.remove is
\* passed over
Finally ==
    /\ pc = "finally"
    /\ \E kept \in CleanupSamples : files' = (files \ OwnFiles) \cup kept
    /\ IF pending.kind = "return"
       THEN /\ result' = pending.value
            /\ pc' = "returned"
            /\ UNCHANGED raised
       ELSE /\ raised' = pending.exception
            /\ pc' = "raised"
            /\ UNCHANGED result
    /\ UNCHANGED <<memVars, agentVars, callVars, child, elapsed, proc, hostRun, hostPhase,
                   test_result, pending>>

ExecNext ==
    \/ CreateUserFile
    \/ CreateWrapperFile
    \/ SpawnChild
    \/ SpawnFails
    \/ Tick
    \/ ChildExit
    \/ TimeoutExpired
    \/ AfterRun
    \/ RunTests
    \/ HostLoop
    \/ Finally

SpecExec == ExecInit /\ [][ExecNext]_vars

\* The caller and the child each keep taking their next step
FairSpecExec == SpecExec /\ WF_vars(ExecNext)

Done == pc \in {"returned", "raised"}

----------------------------------------------------------------------------
(* agent.py: parse_test_results and run_agent *)

DefaultTimeout == 10      \* execute_code(code), timeout left at its default
AgentMemorySize == 5      \* ShortTermMemory(max_size=5)

\* The code blocks the model's responses carry
AgentCodes ==
    {<<"print">>, TestMarker, <<"socket">>, <<"eval", "(">>, <<"rmdir", "socket">>}

\* datetime.now() at the construction of an Attempt
NowSamples == IF DirectCall THEN TimeSamples ELSE {"t1"}

\* The integers a tally can show
ParsedInts == 0..(MaxTests + 1)

\* \d+
IsDigits(chunk) == \E n \in ParsedInts : ToString(n) = chunk

\* int(group)
ParseInt(chunk) == CHOOSE n \in ParsedInts : ToString(n) = chunk

\* The chunks before the first newline
RECURSIVE TakeUntilNewline(_)
TakeUntilNewline(text) ==
    IF text = <<>> \/ Head(text) = "\n" THEN <<>>
    ELSE <<Head(text)>> \o TakeUntilNewline(Tail(text))

\* The chunks before the first empty line, or all of them
RECURSIVE TakeUntilBlankLine(_)
TakeUntilBlankLine(text) ==
    IF text = <<>> THEN <<>>
    ELSE IF Len(text) >= 2 /\ text[1] = "\n" /\ text[2] = "\n" THEN <<>>
    ELSE <<Head(text)>> \o TakeUntilBlankLine(Tail(text))

\* agent.py 253-258: the failure read at a block mark, for a block with a
\* name line and a message
ParseBlock(rest) ==
    LET name == TakeUntilNewline(rest)
        message == TakeUntilBlankLine(LStrip(SubSeq(rest, Len(name) + 1, Len(rest))))
    IN  [test_name |-> Strip(name), message |-> Strip(message)]

\* agent.py 237-267
parse_test_results(r) ==
    LET text == r.output \o <<"\n">> \o r.error
        tallies == {i \in 1..(Len(text) - 3) :
                        /\ IsDigits(text[i])
                        /\ text[i + 1] = "/"
                        /\ IsDigits(text[i + 2])
                        /\ text[i + 3] = " passed"}
        first == CHOOSE i \in tallies : \A j \in tallies : i <= j
        marks == SelectSeq([i \in 1..Len(text) |-> i], LAMBDA i : text[i] = BlockMark)
    IN  IF tallies = {} THEN None
        ELSE [total_tests |-> ParseInt(text[first + 2]),
              passed |-> ParseInt(text[first]),
              failed |-> ParseInt(text[first + 2]) - ParseInt(text[first]),
              failures |-> [k \in 1..Len(marks) |->
                               ParseBlock(SubSeq(text, marks[k] + 1, Len(text)))]]

\* agent.py 194: "tests passed" in output.lower() or "tests failed" in error.lower()
MentionsTests(r) ==
    \/ \E i \in 1..Len(r.output) : r.output[i] = "[check] All tests passed! ("
    \/ \E i \in 1..Len(r.error) : r.error[i] = "Tests failed: "

\* run_agent(goal) starts
AgentInit ==
    /\ max_size = AgentMemorySize
    /\ attempts = <<>>
    /\ added = <<>>
    /\ addsOnly = TRUE
    /\ ExecIdle
    /\ agentPc = "top"
    /\ iteration = 1
    /\ verdict = None
    /\ returned = None
    /\ aliased = FALSE
    /\ launcher = None

\* agent.py 129, 170, 186, 229-234: on to the next iteration, or out of the loop
Continue ==
    IF iteration < MaxIterations
    THEN iteration' = iteration + 1 /\ agentPc' = "top"
    ELSE iteration' = iteration /\ agentPc' = "exhausted"

execLocals == <<pc, files, child, elapsed, proc, hostRun, hostPhase, test_result,
                pending, result, raised>>

\* agent.py 129-170: the response carries no code block
NoCodeReturned ==
    /\ agentPc = "top"
    /\ \E now \in NowSamples :
        add(Attempt(iteration, <<>>, FALSE, <<>>,
                    <<"No code block returned by Claude">>, None, "", now))
    /\ code' = <<>>
    /\ Continue
    /\ UNCHANGED <<timeout, classes, invocation, execLocals, verdict, readVars, launcher>>

\* agent.py 129-186: the response carries code that the safety check rejects
SafetyBlock ==
    /\ agentPc = "top"
    /\ \E c \in AgentCodes, now \in NowSamples :
        /\ ~is_code_safe(c).is_safe
        /\ code' = c
        /\ add(Attempt(iteration, c, FALSE, <<>>, is_code_safe(c).message,
                       None, "", now))
    /\ Continue
    /\ UNCHANGED <<timeout, classes, invocation, execLocals, verdict, readVars, launcher>>

\* agent.py 129-190: the response carries code that passes the safety check;
\* execute_code(code) is called
CallExecute ==
    /\ agentPc = "top"
    /\ \E c \in AgentCodes, n \in 0..1 :
        /\ is_code_safe(c).is_safe
        /\ code' = c
        /\ classes' = n
    /\ timeout' = DefaultTimeout
    /\ invocation' = invocation + 1
    /\ pc' = "create_user"
    /\ child' = "none"
    /\ elapsed' = 0
    /\ proc' = None
    /\ hostRun' = None
    /\ hostPhase' = 0
    /\ test_result' = None
    /\ pending' = None
    /\ result' = None
    /\ raised' = None
    /\ agentPc' = "executing"
    /\ UNCHANGED <<memVars, iteration, files, verdict, readVars, launcher>>

\* agent.py 192-234: execute_code returned; the attempt is stored
StoreAttempt ==
    /\ agentPc = "executing"
    /\ pc = "returned"
    /\ \E now \in NowSamples :
        add(Attempt(iteration, code, result.success, result.output, result.error,
                    IF MentionsTests(result) THEN parse_test_results(result) ELSE None,
                    "", now))
    /\ IF result.success
       THEN iteration' = iteration /\ agentPc' = "succeeded"
       ELSE Continue
    /\ pc' = "idle"
    /\ UNCHANGED <<callVars, files, child, elapsed, proc, hostRun, hostPhase,
                   test_result, pending, result, raised, verdict, readVars, launcher>>

\* agent.py 190: execute_code raised; nothing in run_agent handles it
AgentCrash ==
    /\ agentPc = "executing"
    /\ pc = "raised"
    /\ agentPc' = "crashed"
    /\ pc' = "idle"
    /\ UNCHANGED <<memVars, iteration, callVars, files, child, elapsed, proc,
                   hostRun, hostPhase, test_result, pending, result, raised, verdict, readVars, launcher>>

AgentNext ==
    \/ NoCodeReturned
    \/ SafetyBlock
    \/ CallExecute
    \/ StoreAttempt
    \/ AgentCrash
    \/ CreateUserFile
    \/ CreateWrapperFile
    \/ SpawnChild
    \/ SpawnFails
    \/ Tick
    \/ ChildExit
    \/ TimeoutExpired
    \/ AfterRun
    \/ RunTests
    \/ HostLoop
    \/ Finally

SpecAgent == AgentInit /\ [][AgentNext]_vars

----------------------------------------------------------------------------
(* C1: in every state reachable by add, clear and from_json on a memory    *)
(* created with max_size > 0, the number of held attempts is at most       *)
(* max_size.                                                               *)
C1_LengthAtMostMaxSize == Len(attempts) <= max_size

(* C2: after k add calls on an initially empty memory, get_all is exactly  *)
(* the last min(k, max_size) added attempts, oldest first; so the          *)
(* (max_size+1)-th add evicts only the single oldest attempt.              *)
C2_AddKeepsLastMaxSize ==
    addsOnly => get_all = LastN(added, Min(Len(added), max_size))

C2_Witness ==
    /\ addsOnly
    /\ Len(added) = max_size + 1
    /\ Len(attempts) = max_size
    /\ added[1] # added[2]
    /\ attempts = Tail(added)

(* C3: on every exit path of execute_code (return or raise), both scratch  *)
(* files created for the call no longer exist when the call ends.          *)
C3_ScratchFilesRemoved == Done => OwnFiles = {}

\* Some blocklisted pattern occurs in the text
HasBlocklisted(c) ==
    \E i \in 1..Len(dangerous_patterns) : Contains(c, dangerous_patterns[i].pattern)

(* C4: in the retry loop, for code that contains a blocklisted pattern the *)
(* safety check answers unsafe and execution is never started: no step     *)
(* taken for that code creates a scratch file, spawns a child or enters    *)
(* execute_code, and the attempt stored for it is the safety block.        *)
C4_BlockedCodeNeverExecuted ==
    [][(agentPc' # "none" /\ HasBlocklisted(code'))
          => /\ files' = files
             /\ child' = child
             /\ invocation' = invocation
             /\ pc' = pc
             /\ attempts' # attempts
                  => /\ ~attempts'[Len(attempts')].success
                     /\ attempts'[Len(attempts')].code = code'
                     /\ Head(attempts'[Len(attempts')].error) = "Blocked: code contains '"]_vars

C4_Witness ==
    /\ agentPc \in {"top", "exhausted"}
    /\ HasBlocklisted(code)
    /\ attempts # <<>>
    /\ attempts[Len(attempts)].code = code
    /\ Head(attempts[Len(attempts)].error) = "Blocked: code contains '"
    /\ invocation = 0
    /\ files = {}

\* Evaluating the code or running its tests in run_tests raised a fault
HostFaulted(h) ==
    \/ h.load \notin {"ok", "diverge"}
    \/ h.load = "ok" /\ \E i \in 1..Len(h.outcomes) : h.outcomes[i] = "error"

(* C5: a fault of any type raised while the candidate code is loaded or    *)
(* its tests are run is never propagated to the caller of execute_code:    *)
(* the call returns a result record with success = false.                  *)
C5_CandidateFaultReturnedAsResult ==
    (Done /\ hostRun # None /\ HostFaulted(hostRun))
        => (pc = "returned" /\ result.success = FALSE)

(* C6: every call of execute_code eventually returns (or raises), for      *)
(* every code text, code whose tests the harness runs included.            *)
C6_EveryCallEnds == <>Done

(* C7: no step of execute_code evaluates the candidate code in the host    *)
(* process; it runs in the child only.                                     *)
C7_NeverEvaluatedInHost == hostRun = None

(* C8: when the child exits with code 0 and the code defines no test-case  *)
(* types, execute_code returns success = true and output equal to the      *)
(* child's stdout stripped, whatever the stderr and the source text are.   *)
C8_CleanExitSucceeds ==
    (pc = "returned" /\ proc # None /\ proc.returncode = 0 /\ classes = 0)
        => (result.success /\ result.output = Strip(proc.stdout))

(* C9: execute_code returns success = true only if the child exited 0 and, *)
(* with the test marker in the source, the harness reported success; with  *)
(* the marker present and exit code 0 the result's success is the          *)
(* harness's, and on failure the error text holds one block per entry of   *)
(* the harness's failures.                                                 *)
C9_SuccessIsConjunction ==
    pc = "returned" =>
        /\ result.success =>
              /\ proc # None
              /\ proc.returncode = 0
              /\ Contains(code, TestMarker) => (test_result # None /\ test_result.success)
        /\ (Contains(code, TestMarker) /\ proc # None /\ proc.returncode = 0) =>
              /\ test_result # None
              /\ result.success = test_result.success
              /\ ~test_result.success =>
                    CountChunk(result.error, BlockMark) = Len(test_result.failures)

C9_Witness ==
    /\ pc = "returned"
    /\ Contains(code, TestMarker)
    /\ proc # None
    /\ proc.returncode = 0
    /\ test_result # None
    /\ ~test_result.success
    /\ Len(test_result.failures) = 2
    /\ ~result.success

\* The error texts execute_code composes for a child killed by a resource
\* limit or exiting with a fault and an empty stderr
ComposedFaultTexts ==
    {KilledText, CpuLimitText, FileSizeLimitText}
        \cup {ExitCodeText(rc) : rc \in {0, 1, -9, 137, 158, 153}}

(* C10 as stated: when the child has not finished within the timeout T the *)
(* result has success = false, execution_time = T and the timeout text,    *)
(* and no resource-limit or runtime-fault result carries that text.        *)
C10_TimeoutTextDistinct ==
    pc = "returned" =>
        /\ child = "killed" =>
              /\ ~result.success
              /\ result.execution_time = timeout
              /\ result.error = <<"Execution timed out after ", ToString(timeout), " seconds">>
        /\ (child # "killed" /\ ~result.success) =>
              result.error # <<"Execution timed out after ", ToString(timeout), " seconds">>

(* C10 amended: when the child has not finished within the timeout T the   *)
(* result has success = false, execution_time = T and the timeout text;    *)
(* that text differs from every text execute_code composes for a resource  *)
(* limit or a fault, and a result of a finished child carries it only as   *)
(* the child's own stderr.                                                 *)
C10_TimeoutResult ==
    pc = "returned" =>
        /\ child = "killed" =>
              /\ ~result.success
              /\ result.output = <<>>
              /\ result.execution_time = timeout
              /\ result.error = <<"Execution timed out after ", ToString(timeout), " seconds">>
              /\ result.error \notin ComposedFaultTexts
        /\ (child # "killed"
                /\ result.error = <<"Execution timed out after ", ToString(timeout), " seconds">>) =>
              /\ proc # None
              /\ Strip(proc.stderr) = result.error

C10_Witness ==
    /\ pc = "returned"
    /\ child = "killed"
    /\ elapsed = timeout
    /\ proc = None
    /\ ~result.success

(* C11: has_pattern('same_error') is true exactly when the memory holds at  *)
(* least two attempts, the last two both failed and the first lines of     *)
(* their error texts are equal; so with max_size = 2, two failures with    *)
(* the same first line make it true and a following success makes it       *)
(* false.                                                                  *)
C11_SameError ==
    LET n == Len(attempts)
    IN  has_pattern("same_error") <=>
            /\ n >= 2
            /\ ~attempts[n - 1].success
            /\ ~attempts[n].success
            /\ FirstLine(attempts[n - 1].error) = FirstLine(attempts[n].error)

C11_Witness ==
    /\ max_size = 2
    /\ Len(attempts) = 2
    /\ attempts[1].error # attempts[2].error
    /\ has_pattern("same_error")

(* C12: has_pattern('no_progress') is true exactly when the memory holds at *)
(* least three attempts and each of the last three failed and recorded no  *)
(* passing count above zero, an attempt without test results counting as   *)
(* zero.                                                                   *)
C12_NoProgress ==
    LET n == Len(attempts)
        Passed(a) == IF a.test_results = None THEN 0 ELSE a.test_results.passed
    IN  has_pattern("no_progress") <=>
            /\ n >= 3
            /\ \A i \in (n - 2)..n : ~attempts[i].success /\ ~(Passed(attempts[i]) > 0)

C12_Witness ==
    /\ Len(attempts) = 3
    /\ has_pattern("no_progress")
    /\ \E i \in 1..3 : attempts[i].test_results # None
    /\ \E i \in 1..3 : attempts[i].test_results = None

(* C13: has_pattern('same_test_failure') is true exactly when the memory    *)
(* holds at least two attempts, the last two both carry test results and   *)
(* the sets of failing test names of the two have a name in common.        *)
C13_SameTestFailure ==
    LET n == Len(attempts)
        Names(a) == {a.test_results.failures[k].test_name :
                        k \in 1..Len(a.test_results.failures)}
    IN  has_pattern("same_test_failure") <=>
            /\ n >= 2
            /\ attempts[n - 1].test_results # None
            /\ attempts[n].test_results # None
            /\ \E name \in Names(attempts[n - 1]) : name \in Names(attempts[n])

C13_Witness ==
    /\ Len(attempts) >= 2
    /\ has_pattern("same_test_failure")

(* C14: the progress classification is "insufficient_data" with fewer than  *)
(* two attempts; otherwise, over the last three attempts (or the two       *)
(* held), when all of them carry test results it is "improving" if their   *)
(* passed counts never decrease and "regressing" if they never increase;   *)
(* otherwise "mixed" when some are failures without test results and       *)
(* others failures with test results; otherwise "stable".                  *)
C14_ProgressClassification ==
    LET n == Len(attempts)
        first == IF n >= 3 THEN n - 2 ELSE 1
        Carries(i) == attempts[i].test_results # None
        Passed(i) == attempts[i].test_results.passed
        allCarry == \A i \in first..n : Carries(i)
        nonDecreasing == \A i \in first..(n - 1) : Passed(i) <= Passed(i + 1)
        nonIncreasing == \A i \in first..(n - 1) : Passed(i) >= Passed(i + 1)
        someFailWithout == \E i \in first..n : ~attempts[i].success /\ ~Carries(i)
        someFailWith == \E i \in first..n : ~attempts[i].success /\ Carries(i)
    IN  _calculate_progress =
            IF n < 2 THEN "insufficient_data"
            ELSE IF allCarry /\ nonDecreasing THEN "improving"
            ELSE IF allCarry /\ nonIncreasing THEN "regressing"
            ELSE IF someFailWithout /\ someFailWith THEN "mixed"
            ELSE "stable"

C14_Witness ==
    /\ Len(attempts) = 3
    /\ \A i \in 1..3 : attempts[i].test_results # None
    /\ attempts[1].test_results.passed > attempts[2].test_results.passed
    /\ attempts[2].test_results.passed < attempts[3].test_results.passed
    /\ _calculate_progress = "stable"

(* C15: for every memory state get_summary returns the total number of     *)
(* attempts, the numbers that succeeded and that failed (their sum being   *)
(* the total), the most recent error (None exactly when the most recent    *)
(* attempt succeeded) and the progress classification.                     *)
C15_SummaryOfEveryState ==
    LET s == get_summary
        n == Len(attempts)
    IN  /\ DOMAIN s = {"total_attempts", "successful_attempts", "failed_attempts",
                       "most_recent_error", "progress"}
        /\ s.total_attempts = n
        /\ s.successful_attempts = Cardinality({i \in 1..n : attempts[i].success})
        /\ s.failed_attempts = Cardinality({i \in 1..n : ~attempts[i].success})
        /\ s.successful_attempts + s.failed_attempts = s.total_attempts
        /\ (s.most_recent_error = None) <=> attempts[n].success
        /\ ~attempts[n].success => s.most_recent_error = [some |-> attempts[n].error]
        /\ s.progress \in {"insufficient_data", "improving", "regressing",
                            "mixed", "stable"}

(* C15 amended: for a memory holding at least one attempt get_summary      *)
(* returns those five entries; for an empty memory it returns the total    *)
(* of zero and nothing else.                                               *)
C15_SummaryOfNonEmpty ==
    LET s == get_summary
        n == Len(attempts)
    IN  /\ n = 0 => s = [total_attempts |-> 0]
        /\ n > 0 =>
              /\ DOMAIN s = {"total_attempts", "successful_attempts", "failed_attempts",
                             "most_recent_error", "progress"}
              /\ s.total_attempts = n
              /\ s.successful_attempts = Cardinality({i \in 1..n : attempts[i].success})
              /\ s.failed_attempts = Cardinality({i \in 1..n : ~attempts[i].success})
              /\ s.successful_attempts + s.failed_attempts = s.total_attempts
              /\ (s.most_recent_error = None) <=> attempts[n].success
              /\ ~attempts[n].success => s.most_recent_error = [some |-> attempts[n].error]
              /\ s.progress \in {"insufficient_data", "improving", "regressing",
                                  "mixed", "stable"}

C15_Witness ==
    /\ Len(attempts) = 3
    /\ attempts[3].success
    /\ ~attempts[2].success
    /\ get_summary.most_recent_error = None
    /\ get_summary.successful_attempts = 1

(* C16: for every memory state, serializing with to_json and restoring     *)
(* with from_json, at whatever time, yields the same attempt sequence:     *)
(* same length, same order, every field of every attempt equal,            *)
(* test_results and timestamp included.                                    *)
C16_JsonRoundTrip ==
    \A now \in TimeSamples :
        LET restored == LoadAttempts(json_loads(to_json), now)
        IN  /\ Len(restored) = Len(attempts)
            /\ \A i \in 1..Len(attempts) :
                  /\ restored[i].iteration = attempts[i].iteration
                  /\ restored[i].code = attempts[i].code
                  /\ restored[i].success = attempts[i].success
                  /\ restored[i].output = attempts[i].output
                  /\ restored[i].error = attempts[i].error
                  /\ restored[i].test_results = attempts[i].test_results
                  /\ restored[i].timestamp = attempts[i].timestamp
            /\ restored = attempts

C16_Witness ==
    /\ Len(attempts) = 3
    /\ attempts[1].test_results # None
    /\ Len(attempts[1].test_results.failures) > 0
    /\ attempts[2].test_results = None
    /\ attempts[3].success
    /\ to_json # JsonArray(<<>>)

(* C17: is_code_safe answers safe exactly when no pattern of the ordered   *)
(* blocklist occurs in the code; otherwise it answers unsafe with the      *)
(* message naming the pattern and the category of the first pattern, in    *)
(* list order, that occurs (not the one occurring earliest in the text);   *)
(* the call changes nothing but its return value.                          *)
C17_FirstPatternInListOrder ==
    /\ [](verdict # None =>
            LET occurring == {i \in 1..Len(dangerous_patterns) :
                                 \E k \in 1..(Len(code) - Len(dangerous_patterns[i].pattern) + 1) :
                                     SubSeq(code, k, k + Len(dangerous_patterns[i].pattern) - 1)
                                         = dangerous_patterns[i].pattern}
            IN  /\ verdict.is_safe <=> occurring = {}
                /\ occurring # {} =>
                      \E i \in occurring :
                          /\ \A j \in occurring : i <= j
                          /\ verdict.message =
                                <<"Blocked: code contains '">>
                                    \o dangerous_patterns[i].pattern
                                    \o <<"' (", dangerous_patterns[i].reason, ")">>)
    /\ [][verdict' # verdict =>
              UNCHANGED <<memVars, execVars, agentPc, iteration, readVars, launcher>>]_vars

C17_Witness ==
    /\ verdict # None
    /\ code = <<"socket", "rmdir">>
    /\ ~verdict.is_safe
    /\ verdict.message = <<"Blocked: code contains '", "rmdir", "' (", "directory deletion", ")">>

(* C18: for every harness run that discovers and executes N test methods   *)
(* of which f fail by assertion and e fail by another fault, run_tests     *)
(* returns total_tests = N, failed = f, errors = e, passed = N - f - e,    *)
(* success = (f + e = 0) and a failures sequence of exactly f + e entries. *)
C18_CountsAndSuccess ==
    (test_result # None /\ hostRun # None /\ hostRun.load = "ok" /\ classes > 0
        /\ hostRun.fixture = "ok") =>
        LET N == Len(hostRun.outcomes)
            f == Cardinality({i \in 1..N : hostRun.outcomes[i] = "fail"})
            e == Cardinality({i \in 1..N : hostRun.outcomes[i] = "error"})
        IN  /\ test_result.total_tests = N
            /\ test_result.failed = f
            /\ test_result.errors = e
            /\ test_result.passed = N - f - e
            /\ test_result.passed + test_result.failed + test_result.errors
                  = test_result.total_tests
            /\ test_result.success = (f + e = 0)
            /\ Len(test_result.failures) = f + e

(* C19: when evaluating the code yields no test-case type, run_tests       *)
(* returns total_tests = 0, success = false and exactly one failure entry  *)
(* of kind NoTestsFound; when evaluating the code itself faults, it        *)
(* returns total_tests = 0, success = false and exactly one failure entry  *)
(* whose kind is the fault's type name.                                    *)
C19_NoTestsAndLoadFaults ==
    LET SingleEntry(kind) ==
            /\ test_result # None
            /\ test_result.total_tests = 0
            /\ ~test_result.success
            /\ Len(test_result.failures) = 1
            /\ test_result.failures[1].error_type = <<kind>>
    IN  (hostRun # None /\ ~Diverges(hostRun) /\ pc \in {"finally", "returned", "raised"}) =>
            /\ (hostRun.load = "ok" /\ classes = 0) => SingleEntry("NoTestsFound")
            /\ hostRun.load # "ok" => SingleEntry(hostRun.load)

(* C20: when execute_code cannot create a scratch file, or cannot remove   *)
(* one during clean-up, the call ends by raising that failure to the       *)
(* caller; it neither returns a result nor passes the failure over.        *)
C20_ScratchFailureIsFatal ==
    [][/\ (pc = "create_user" /\ UserFile \notin files') =>
              (pc' = "raised" /\ raised'.origin = "scratch")
       /\ (pc = "create_wrapper" /\ WrapperFile \notin files') =>
              (pc' = "raised" /\ raised'.origin = "scratch")
       /\ (pc = "finally" /\ OwnFiles' # {}) =>
              (pc' = "raised" /\ raised'.origin = "scratch")]_vars

(* C21: for every n >= 0 and every memory state, get_recent(n) returns the *)
(* last min(n, count) held attempts, oldest first; so get_recent(0) is     *)
(* empty and get_recent(n) with n >= count is get_all().                   *)
C21_GetRecentLastN ==
    (returned # None /\ returned.op = "get_recent" /\ ~returned.touched) =>
        LET n == returned.arg
            k == IF n <= Len(attempts) THEN n ELSE Len(attempts)
        IN  /\ Len(returned.value) = k
            /\ \A i \in 1..k : returned.value[i] = attempts[Len(attempts) - k + i]
            /\ n = 0 => returned.value = <<>>
            /\ n >= Len(attempts) => returned.value = attempts

IterationEnds ==
    /\ agentPc \in {"top", "executing"}
    /\ iteration' # iteration \/ agentPc' \in {"succeeded", "exhausted", "crashed"}

\* execute_code ended on the failure to create a scratch file, the one fatal
\* condition that ends the loop
ScratchFatal == pc = "raised" /\ raised.origin = "scratch"

(* C23: in the retry loop every iteration appends exactly one Attempt to   *)
(* the memory on every path (no code block, safety block, code executed),  *)
(* numbered with the iteration, so the stored iteration numbers increase   *)
(* strictly; after i completed iterations the memory holds                 *)
(* min(i, max_size) attempts; no stored attempt changes after it was       *)
(* added. Only the fatal failure of the scratch area ends an iteration     *)
(* without an attempt.                                                     *)
C23_OneAttemptPerIteration ==
    /\ [](/\ (\A i \in 1..(Len(attempts) - 1) :
                 attempts[i].iteration < attempts[i + 1].iteration)
          /\ (agentPc \in {"top", "executing"} =>
                 Len(attempts) = Min(iteration - 1, max_size))
          /\ (agentPc \in {"succeeded", "exhausted"} =>
                 Len(attempts) = Min(iteration, max_size)))
    /\ [][/\ ((IterationEnds /\ ~ScratchFatal) =>
               (/\ Len(attempts') = Min(Len(attempts) + 1, max_size)
                /\ attempts'[Len(attempts')].iteration = iteration
                /\ \A i \in 1..(Len(attempts') - 1) :
                      attempts'[i] = attempts[Len(attempts) + 1 - Len(attempts') + i]))
           /\ (~IterationEnds => attempts' = attempts)]_vars

(* C24: in the wrapper script a failure to set one ceiling (CPU time,      *)
(* address space, file size) never keeps the other ceilings from being     *)
(* applied, and in every combination of failing ceilings the candidate     *)
(* code is still run.                                                      *)
C24_OtherCeilingsStillApplied ==
    (launcher # None /\ launcher.pc = "done") =>
        /\ launcher.ran
        /\ launcher.platform.import = "ok" =>
              \A i \in 1..Len(Ceilings) :
                  launcher.platform[Ceilings[i]] = "ok" => Ceilings[i] \in launcher.applied

(* C25: in every TestResult returned by run_tests, 0 <= passed and         *)
(* passed <= total_tests, also when a class fixture faults so that an      *)
(* error is recorded without a test having been run.                       *)
C25_PassedWithinBounds ==
    test_result # None =>
        /\ 0 <= test_result.passed
        /\ test_result.passed <= test_result.total_tests

(* C26: the reads of the memory (get_all, get_recent, count, has_pattern,  *)
(* get_summary, to_json) and build_reflection_prompt leave the held        *)
(* attempts and max_size unchanged, and appending to or removing from a    *)
(* list returned by get_all or get_recent does not change the memory's     *)
(* own sequence.                                                           *)
C26_ReadsChangeNothing ==
    [][returned' # returned => (attempts' = attempts /\ max_size' = max_size)]_vars

C26_Witness ==
    /\ returned # None
    /\ returned.op = "get_all"
    /\ returned.touched
    /\ Len(returned.value) = Len(attempts) + 1
    /\ attempts # <<>>

====
